---------------------------- MODULE Spec2Model ----------------------------
(***************************************************************************)
(* Model of the fixed-size linear-algebra library of the repository:       *)
(* Matrix2x2, Matrix3x3, Matrix4x4 (src/js/matrix3x3.js,                   *)
(* src/js/matrix4x4.js) and their transform builders.                      *)
(*                                                                         *)
(* Numbers.  A JavaScript number is modelled as an exact rational <<n,d>>  *)
(* in lowest terms with d > 0.  The inputs are integers and quarter-turn  *)
(* angles, so every value the operations produce is a rational; floating- *)
(* point rounding ("within tolerance" in the specification) is not        *)
(* modelled.  Inputs that would divide by zero are not drawn.              *)
(*                                                                         *)
(* Arrays.  A JavaScript array is a sequence; the element at JavaScript    *)
(* index i is the element i+1 of the sequence.                             *)
(***************************************************************************)
EXTENDS Integers, Sequences, FiniteSets

-----------------------------------------------------------------------------
(* Numbers *)

Abs(x) ==
    IF x < 0 THEN -x ELSE x

RECURSIVE GCD(_, _)
GCD(a, b) ==
    IF b = 0 THEN a ELSE GCD(b, a % b)

\* the rational n/d in lowest terms, d # 0
Norm(n, d) ==
    IF d = 1 THEN <<n, 1>>
    ELSE IF n = 0 THEN <<0, 1>>
    ELSE LET g == GCD(Abs(n), Abs(d))
             s == IF d < 0 THEN -1 ELSE 1
         IN  <<(s * n) \div g, (s * d) \div g>>

\* the integer i as a number
R(i) ==
    <<i, 1>>

\* x + y
RAdd(x, y) ==
    IF x[2] = 1 /\ y[2] = 1 THEN <<x[1] + y[1], 1>>
    ELSE LET g == GCD(x[2], y[2])
         IN  Norm(x[1] * (y[2] \div g) + y[1] * (x[2] \div g),
                  (x[2] \div g) * y[2])

\* x - y
RSub(x, y) ==
    RAdd(x, <<-y[1], y[2]>>)

\* x * y
RMul(x, y) ==
    IF x[2] = 1 /\ y[2] = 1 THEN <<x[1] * y[1], 1>>
    ELSE IF x[1] = 0 \/ y[1] = 0 THEN <<0, 1>>
    ELSE LET g == GCD(Abs(x[1]), y[2])
             h == GCD(Abs(y[1]), x[2])
         IN  <<(x[1] \div g) * (y[1] \div h), (x[2] \div h) * (y[2] \div g)>>

\* x / y, y # 0
RDiv(x, y) ==
    IF y[1] < 0 THEN RMul(x, <<-y[2], -y[1]>>) ELSE RMul(x, <<y[2], y[1]>>)

\* -x
RNeg(x) ==
    <<-x[1], x[2]>>

\* (-1) ** j
PowMinusOne(j) ==
    IF j % 2 = 0 THEN R(1) ELSE R(-1)

\* the array of the integers of a sequence
Arr(s) ==
    [k \in 1..Len(s) |-> R(s[k])]

\* arr[i], JavaScript index
At(arr, i) ==
    arr[i + 1]

\* an array element that holds no number (a hole, read as undefined)
Undefined ==
    <<0, 0>>

\* arr[i] = v: a store at the length appends, a store inside overwrites
ArraySet(arr, i, v) ==
    IF i < Len(arr) THEN [arr EXCEPT ![i + 1] = v]
    ELSE IF i = Len(arr) THEN Append(arr, v)
    ELSE [k \in 1..(i + 1) |->
            IF k <= Len(arr) THEN arr[k] ELSE IF k = i + 1 THEN v ELSE Undefined]

\* Math.cos and Math.sin of q quarter turns (q * PI / 2 radians)
Cos(q) ==
    R(CASE q % 4 = 0 -> 1 [] q % 4 = 1 -> 0 [] q % 4 = 2 -> -1 [] OTHER -> 0)

Sin(q) ==
    R(CASE q % 4 = 0 -> 0 [] q % 4 = 1 -> 1 [] q % 4 = 2 -> 0 [] OTHER -> -1)

\* sum = 0; for k < m: sum += l[i*n+k] * r[k*n+j]
RECURSIVE SumTo(_, _, _, _, _, _)
SumTo(n, l, r, i, j, m) ==
    IF m = 0 THEN R(0)
    ELSE RAdd(SumTo(n, l, r, i, j, m - 1),
              RMul(At(l, i * n + (m - 1)), At(r, (m - 1) * n + j)))

\* the loops of mult(b) and premult(b) from flat index x on, when b.entries
\* is the array this.entries: a is the copy made on entry, cur is the array
\* as written so far, which every read of b.entries sees; bFirst tells
\* whether the factor read from b is the row factor (Matrix4x4.premult) or
\* the column factor (the others)
RECURSIVE SelfLoop(_, _, _, _, _)
SelfLoop(n, a, cur, x, bFirst) ==
    IF x = n * n THEN cur
    ELSE LET i == x \div n
             j == x % n
             sum == IF bFirst THEN SumTo(n, cur, a, i, j, n)
                              ELSE SumTo(n, a, cur, i, j, n)
         IN  SelfLoop(n, a, ArraySet(cur, x, sum), x + 1, bFirst)

-----------------------------------------------------------------------------
(* Matrix2x2 *)

Matrix2x2_identity ==
    Arr(<<1, 0,
          0, 1>>)

\* [...this.entries]: the elements of this.entries
Matrix2x2_copy(this) ==
    this

\* whether the array of the copy is this.entries itself: the spread
\* [...this.entries] makes a new array
Matrix2x2_copyShares(this) ==
    FALSE

\* this.entries[i*2+j] = sum_k a[i*2+k] * b[k*2+j]
Matrix2x2_mult(this, b) ==
    LET a == Matrix2x2_copy(this)
        sum(i, j) ==
            RAdd(RAdd(R(0), RMul(At(a, i * 2 + 0), At(b, 0 * 2 + j))),
                            RMul(At(a, i * 2 + 1), At(b, 1 * 2 + j)))
    IN  [x \in 1..Len(this) |->
            IF x <= 4 THEN sum((x - 1) \div 2, (x - 1) % 2) ELSE this[x]]

\* this.entries[i*2+j] = sum_k b[k*2+j] * a[i*2+k]
Matrix2x2_premult(this, b) ==
    LET a == Matrix2x2_copy(this)
        sum(i, j) ==
            RAdd(RAdd(R(0), RMul(At(b, 0 * 2 + j), At(a, i * 2 + 0))),
                            RMul(At(b, 1 * 2 + j), At(a, i * 2 + 1)))
    IN  [x \in 1..Len(this) |->
            IF x <= 4 THEN sum((x - 1) \div 2, (x - 1) % 2) ELSE this[x]]

\* mult(b) and premult(b) with b.entries === this.entries
Matrix2x2_multSelf(this) ==
    SelfLoop(2, Matrix2x2_copy(this), this, 0, FALSE)

Matrix2x2_premultSelf(this) ==
    SelfLoop(2, Matrix2x2_copy(this), this, 0, FALSE)

Matrix2x2_determinant(this) ==
    RSub(RMul(At(this, 0), At(this, 3)), RMul(At(this, 1), At(this, 2)))

-----------------------------------------------------------------------------
(* Matrix3x3 *)

Matrix3x3_identity ==
    Arr(<<1, 0, 0,
          0, 1, 0,
          0, 0, 1>>)

Matrix3x3_translation(tx, ty) ==
    <<R(1), R(0), R(0),
      R(0), R(1), R(0),
      tx,   ty,   R(1)>>

\* a slip of rotation: the signs of the two sines exchanged
Matrix3x3_rotation_flipped(q) ==
    LET c == Cos(q)
        s == Sin(q)
    IN  <<c,       s,    R(0),
          RNeg(s), c,    R(0),
          R(0),    R(0), R(1)>>

Matrix3x3_rotation(q) ==
    LET c == Cos(q)
        s == Sin(q)
    IN  <<c,    RNeg(s), R(0),
          s,    c,       R(0),
          R(0), R(0),    R(1)>>

Matrix3x3_scaling(sx, sy) ==
    <<sx,   R(0), R(0),
      R(0), sy,   R(0),
      R(0), R(0), R(1)>>

\* width # 0, height # 0
Matrix3x3_projection(width, height) ==
    <<RDiv(R(2), width), R(0),                 R(0),
      R(0),              RDiv(R(-2), height),  R(0),
      R(-1),             R(1),                 R(1)>>

\* [...this.entries]: the elements of this.entries
Matrix3x3_copy(this) ==
    this

\* a slip of copy: new Matrix3x3(this.entries), the array itself handed on
Matrix3x3_copyShares_handedOn(this) ==
    TRUE

\* whether the array of the copy is this.entries itself: the spread
\* [...this.entries] makes a new array
Matrix3x3_copyShares(this) ==
    FALSE

\* a slip of mult: the operands taken in the other order
Matrix3x3_mult_swapped(this, b) ==
    LET a == this
        sum(i, j) ==
            RAdd(RAdd(RAdd(R(0), RMul(At(b, i * 3 + 0), At(a, 0 * 3 + j))),
                                 RMul(At(b, i * 3 + 1), At(a, 1 * 3 + j))),
                                 RMul(At(b, i * 3 + 2), At(a, 2 * 3 + j)))
    IN  [x \in 1..Len(this) |->
            IF x <= 9 THEN sum((x - 1) \div 3, (x - 1) % 3) ELSE this[x]]

\* this.entries[i*3+j] = sum_k a[i*3+k] * b[k*3+j]
Matrix3x3_mult(this, b) ==
    LET a == Matrix3x3_copy(this)
        sum(i, j) ==
            RAdd(RAdd(RAdd(R(0), RMul(At(a, i * 3 + 0), At(b, 0 * 3 + j))),
                                 RMul(At(a, i * 3 + 1), At(b, 1 * 3 + j))),
                                 RMul(At(a, i * 3 + 2), At(b, 2 * 3 + j)))
    IN  [x \in 1..Len(this) |->
            IF x <= 9 THEN sum((x - 1) \div 3, (x - 1) % 3) ELSE this[x]]

\* this.entries[i*3+j] = sum_k b[k*3+j] * a[i*3+k]
Matrix3x3_premult(this, b) ==
    LET a == Matrix3x3_copy(this)
        sum(i, j) ==
            RAdd(RAdd(RAdd(R(0), RMul(At(b, 0 * 3 + j), At(a, i * 3 + 0))),
                                 RMul(At(b, 1 * 3 + j), At(a, i * 3 + 1))),
                                 RMul(At(b, 2 * 3 + j), At(a, i * 3 + 2)))
    IN  [x \in 1..Len(this) |->
            IF x <= 9 THEN sum((x - 1) \div 3, (x - 1) % 3) ELSE this[x]]

\* mult(b) and premult(b) with b.entries === this.entries
Matrix3x3_multSelf(this) ==
    SelfLoop(3, Matrix3x3_copy(this), this, 0, FALSE)

Matrix3x3_premultSelf(this) ==
    SelfLoop(3, Matrix3x3_copy(this), this, 0, FALSE)

\* c = identity(); c.mult(a); c.mult(b)
Matrix3x3_multiply(a, b) ==
    Matrix3x3_mult(Matrix3x3_mult(Matrix3x3_identity, a), b)

Matrix3x3_translate(this, tx, ty) ==
    Matrix3x3_mult(this, Matrix3x3_translation(tx, ty))

Matrix3x3_scale(this, sx, sy) ==
    Matrix3x3_mult(this, Matrix3x3_scaling(sx, sy))

Matrix3x3_rotate(this, q) ==
    Matrix3x3_mult(this, Matrix3x3_rotation(q))

\* the entries pushed for a, b in 0..2, a # i, b # j, in that order
Matrix3x3_cofactor(this, i, j) ==
    LET rows == SelectSeq(<<0, 1, 2>>, LAMBDA a : a # i)
        cols == SelectSeq(<<0, 1, 2>>, LAMBDA b : b # j)
        nc == Len(cols)
    IN  [x \in 1..(Len(rows) * nc) |->
            At(this, rows[((x - 1) \div nc) + 1] * 3 + cols[((x - 1) % nc) + 1])]

Matrix3x3_determinant(this) ==
    LET term(j) == RMul(RMul(PowMinusOne(j), At(this, j)),
                        Matrix2x2_determinant(Matrix3x3_cofactor(this, 0, j)))
    IN  RAdd(RAdd(RAdd(R(0), term(0)), term(1)), term(2))

\* the copy of the matrix after the loop of _adjointDeterminant
Matrix3x3_adjoint(this, i, j) ==
    LET a0 == Matrix3x3_copy(this)
        a1 == ArraySet(a0, 0 * 3 + i, IF 0 = j THEN R(1) ELSE R(0))
        a2 == ArraySet(a1, 1 * 3 + i, IF 1 = j THEN R(1) ELSE R(0))
    IN  ArraySet(a2, 2 * 3 + i, IF 2 = j THEN R(1) ELSE R(0))

Matrix3x3_adjointDeterminant(this, i, j) ==
    Matrix3x3_determinant(Matrix3x3_adjoint(this, i, j))

\* the bound of both loops of Matrix3x3.inverse
Matrix3x3_inverseBound ==
    4

\* det === 0: inverse() throws
Matrix3x3_inverseThrows(this) ==
    Matrix3x3_determinant(this) = R(0)

\* the entries pushed by inverse(), determinant # 0
Matrix3x3_inverse(this) ==
    LET det == Matrix3x3_determinant(this)
        n == Matrix3x3_inverseBound
    IN  [x \in 1..(n * n) |->
            RDiv(Matrix3x3_adjointDeterminant(this, (x - 1) \div n, (x - 1) % n), det)]

-----------------------------------------------------------------------------
(* Matrix4x4 *)

Matrix4x4_identity ==
    Arr(<<1, 0, 0, 0,
          0, 1, 0, 0,
          0, 0, 1, 0,
          0, 0, 0, 1>>)

Matrix4x4_fromTranslation(tx, ty, tz) ==
    <<R(1), R(0), R(0), R(0),
      R(0), R(1), R(0), R(0),
      R(0), R(0), R(1), R(0),
      tx,   ty,   tz,   R(1)>>

Matrix4x4_fromXRotation(q) ==
    LET c == Cos(q)
        s == Sin(q)
    IN  <<R(1), R(0),    R(0), R(0),
          R(0), c,       s,    R(0),
          R(0), RNeg(s), c,    R(0),
          R(0), R(0),    R(0), R(1)>>

Matrix4x4_fromYRotation(q) ==
    LET c == Cos(q)
        s == Sin(q)
    IN  <<c,    R(0), RNeg(s), R(0),
          R(0), R(1), R(0),    R(0),
          s,    R(0), c,       R(0),
          R(0), R(0), R(0),    R(1)>>

Matrix4x4_fromZRotation(q) ==
    LET c == Cos(q)
        s == Sin(q)
    IN  <<c,       s,    R(0), R(0),
          RNeg(s), c,    R(0), R(0),
          R(0),    R(0), R(1), R(0),
          R(0),    R(0), R(0), R(1)>>

Matrix4x4_fromScaling(sx, sy, sz) ==
    <<sx,   R(0), R(0), R(0),
      R(0), sy,   R(0), R(0),
      R(0), R(0), sz,   R(0),
      R(0), R(0), R(0), R(1)>>

\* [...this.entries]: the elements of this.entries
Matrix4x4_copy(this) ==
    this

\* whether the array of the copy is this.entries itself: the spread
\* [...this.entries] makes a new array
Matrix4x4_copyShares(this) ==
    FALSE

\* a slip of mult: the loop over k stops one short
Matrix4x4_mult_short(this, b) ==
    LET a == this
        sum(i, j) ==
            RAdd(RAdd(RAdd(R(0), RMul(At(a, i * 4 + 0), At(b, 0 * 4 + j))),
                                 RMul(At(a, i * 4 + 1), At(b, 1 * 4 + j))),
                                 RMul(At(a, i * 4 + 2), At(b, 2 * 4 + j)))
    IN  [x \in 1..Len(this) |->
            IF x <= 16 THEN sum((x - 1) \div 4, (x - 1) % 4) ELSE this[x]]

\* this.entries[i*4+j] = sum_k a[i*4+k] * b[k*4+j]
Matrix4x4_mult(this, b) ==
    LET a == Matrix4x4_copy(this)
        sum(i, j) ==
            RAdd(RAdd(RAdd(RAdd(R(0), RMul(At(a, i * 4 + 0), At(b, 0 * 4 + j))),
                                      RMul(At(a, i * 4 + 1), At(b, 1 * 4 + j))),
                                      RMul(At(a, i * 4 + 2), At(b, 2 * 4 + j))),
                                      RMul(At(a, i * 4 + 3), At(b, 3 * 4 + j)))
    IN  [x \in 1..Len(this) |->
            IF x <= 16 THEN sum((x - 1) \div 4, (x - 1) % 4) ELSE this[x]]

\* this.entries[i*4+j] = sum_k b[i*4+k] * a[k*4+j]
Matrix4x4_premult(this, b) ==
    LET a == Matrix4x4_copy(this)
        sum(i, j) ==
            RAdd(RAdd(RAdd(RAdd(R(0), RMul(At(b, i * 4 + 0), At(a, 0 * 4 + j))),
                                      RMul(At(b, i * 4 + 1), At(a, 1 * 4 + j))),
                                      RMul(At(b, i * 4 + 2), At(a, 2 * 4 + j))),
                                      RMul(At(b, i * 4 + 3), At(a, 3 * 4 + j)))
    IN  [x \in 1..Len(this) |->
            IF x <= 16 THEN sum((x - 1) \div 4, (x - 1) % 4) ELSE this[x]]

\* mult(b) and premult(b) with b.entries === this.entries
Matrix4x4_multSelf(this) ==
    SelfLoop(4, Matrix4x4_copy(this), this, 0, FALSE)

Matrix4x4_premultSelf(this) ==
    SelfLoop(4, Matrix4x4_copy(this), this, 0, TRUE)

\* c = identity(); c.mult(a); c.mult(b)
Matrix4x4_multiply(a, b) ==
    Matrix4x4_mult(Matrix4x4_mult(Matrix4x4_identity, a), b)

Matrix4x4_translate(this, tx, ty, tz) ==
    Matrix4x4_premult(this, Matrix4x4_fromTranslation(tx, ty, tz))

Matrix4x4_scale(this, sx, sy, sz) ==
    Matrix4x4_premult(this, Matrix4x4_fromScaling(sx, sy, sz))

Matrix4x4_xRotate(this, q) ==
    Matrix4x4_premult(this, Matrix4x4_fromXRotation(q))

Matrix4x4_yRotate(this, q) ==
    Matrix4x4_premult(this, Matrix4x4_fromYRotation(q))

Matrix4x4_zRotate(this, q) ==
    Matrix4x4_premult(this, Matrix4x4_fromZRotation(q))

\* a slip of _cofactor: the column skipped is column i
Matrix4x4_cofactor_columnI(this, i, j) ==
    LET rows == SelectSeq(<<0, 1, 2, 3>>, LAMBDA a : a # i)
        cols == SelectSeq(<<0, 1, 2, 3>>, LAMBDA b : b # i)
        nc == Len(cols)
    IN  [x \in 1..(Len(rows) * nc) |->
            At(this, rows[((x - 1) \div nc) + 1] * 4 + cols[((x - 1) % nc) + 1])]

\* the entries pushed for a, b in 0..3, a # i, b # j, in that order
Matrix4x4_cofactor(this, i, j) ==
    LET rows == SelectSeq(<<0, 1, 2, 3>>, LAMBDA a : a # i)
        cols == SelectSeq(<<0, 1, 2, 3>>, LAMBDA b : b # j)
        nc == Len(cols)
    IN  [x \in 1..(Len(rows) * nc) |->
            At(this, rows[((x - 1) \div nc) + 1] * 4 + cols[((x - 1) % nc) + 1])]

\* a slip of determinant: the minor of column 0 taken for every j
Matrix4x4_determinant_sameMinor(this) ==
    LET term(j) == RMul(RMul(PowMinusOne(j), At(this, j)),
                        Matrix3x3_determinant(Matrix4x4_cofactor(this, 0, 0)))
    IN  RAdd(RAdd(RAdd(RAdd(R(0), term(0)), term(1)), term(2)), term(3))

Matrix4x4_determinant(this) ==
    LET term(j) == RMul(RMul(PowMinusOne(j), At(this, j)),
                        Matrix3x3_determinant(Matrix4x4_cofactor(this, 0, j)))
    IN  RAdd(RAdd(RAdd(RAdd(R(0), term(0)), term(1)), term(2)), term(3))

\* a slip of _adjointDeterminant: row i is replaced, not column i
Matrix4x4_adjoint_row(this, i, j) ==
    LET a0 == this
        a1 == ArraySet(a0, i * 4 + 0, IF 0 = j THEN R(1) ELSE R(0))
        a2 == ArraySet(a1, i * 4 + 1, IF 1 = j THEN R(1) ELSE R(0))
        a3 == ArraySet(a2, i * 4 + 2, IF 2 = j THEN R(1) ELSE R(0))
    IN  ArraySet(a3, i * 4 + 3, IF 3 = j THEN R(1) ELSE R(0))

\* the copy of the matrix after the loop of _adjointDeterminant
Matrix4x4_adjoint(this, i, j) ==
    LET a0 == Matrix4x4_copy(this)
        a1 == ArraySet(a0, 0 * 4 + i, IF 0 = j THEN R(1) ELSE R(0))
        a2 == ArraySet(a1, 1 * 4 + i, IF 1 = j THEN R(1) ELSE R(0))
        a3 == ArraySet(a2, 2 * 4 + i, IF 2 = j THEN R(1) ELSE R(0))
    IN  ArraySet(a3, 3 * 4 + i, IF 3 = j THEN R(1) ELSE R(0))

Matrix4x4_adjointDeterminant(this, i, j) ==
    Matrix4x4_determinant(Matrix4x4_adjoint(this, i, j))

\* the bound of both loops of Matrix4x4.inverse
Matrix4x4_inverseBound ==
    4

\* a slip of inverse: the determinant is not checked
Matrix4x4_inverseThrows_unchecked(this) ==
    FALSE

\* det === 0: inverse() throws
Matrix4x4_inverseThrows(this) ==
    Matrix4x4_determinant(this) = R(0)

\* a slip of inverse: _adjointDeterminant(j, i) pushed for (i, j)
Matrix4x4_inverse_transposed(this) ==
    LET det == Matrix4x4_determinant(this)
    IN  [x \in 1..16 |->
            RDiv(Matrix4x4_adjointDeterminant(this, (x - 1) % 4, (x - 1) \div 4), det)]

\* the entries pushed by inverse(), determinant # 0
Matrix4x4_inverse(this) ==
    LET det == Matrix4x4_determinant(this)
        n == Matrix4x4_inverseBound
    IN  [x \in 1..(n * n) |->
            RDiv(Matrix4x4_adjointDeterminant(this, (x - 1) \div n, (x - 1) % n), det)]

-----------------------------------------------------------------------------
(* Vector3: a vector is the triple <<x, y, z>> of its fields *)

\* the largest r with r * r <= n, found upwards from r
RECURSIVE Root(_, _)
Root(n, r) ==
    IF (r + 1) * (r + 1) > n THEN r ELSE Root(n, r + 1)

\* whether Math.sqrt(x) is a rational, x >= 0
HasRoot(x) ==
    /\ Root(x[1], 0) * Root(x[1], 0) = x[1]
    /\ Root(x[2], 0) * Root(x[2], 0) = x[2]

\* Math.sqrt(x), for x with a rational root
Math_sqrt(x) ==
    <<Root(x[1], 0), Root(x[2], 0)>>

\* x > Number.EPSILON (2 ** -52): a number of the model has a denominator
\* below 2 ** 31, so it exceeds 2 ** -52 exactly when it is positive
AboveEpsilon(x) ==
    x[1] > 0

Vector3_subtract(v1, v2) ==
    <<RSub(v1[1], v2[1]), RSub(v1[2], v2[2]), RSub(v1[3], v2[3])>>

Vector3_sum(v1, v2) ==
    <<RAdd(v1[1], v2[1]), RAdd(v1[2], v2[2]), RAdd(v1[3], v2[3])>>

\* a slip of cross: the two products of the y component exchanged
Vector3_cross_slipped(v1, v2) ==
    <<RSub(RMul(v1[2], v2[3]), RMul(v1[3], v2[2])),
      RSub(RMul(v1[1], v2[3]), RMul(v1[3], v2[1])),
      RSub(RMul(v1[1], v2[2]), RMul(v1[2], v2[1]))>>

Vector3_cross(v1, v2) ==
    <<RSub(RMul(v1[2], v2[3]), RMul(v1[3], v2[2])),
      RSub(RMul(v1[3], v2[1]), RMul(v1[1], v2[3])),
      RSub(RMul(v1[1], v2[2]), RMul(v1[2], v2[1]))>>

\* this.x -= v.x; this.y -= v.y; this.z -= v.z: the fields of this after it
Vector3_sub(this, v) ==
    <<RSub(this[1], v[1]), RSub(this[2], v[2]), RSub(this[3], v[3])>>

Vector3_add(this, v) ==
    <<RAdd(this[1], v[1]), RAdd(this[2], v[2]), RAdd(this[3], v[3])>>

\* d # 0
Vector3_divide(this, d) ==
    <<RDiv(this[1], d), RDiv(this[2], d), RDiv(this[3], d)>>

\* this.x ** 2 + this.y ** 2 + this.z ** 2
Vector3_squares(this) ==
    RAdd(RAdd(RMul(this[1], this[1]), RMul(this[2], this[2])),
         RMul(this[3], this[3]))

Vector3_length(this) ==
    Math_sqrt(Vector3_squares(this))

Vector3_zeroValues(this) ==
    <<R(0), R(0), R(0)>>

\* a slip of normalize: the result is a new Vector3, this is left as it was
Vector3_normalize_fresh(this) ==
    [this |-> this, ret |-> "new"]

\* the fields of this after normalize(), and the object it returns: "this",
\* the receiver itself, or "new", another Vector3
Vector3_normalize(this) ==
    LET length == Vector3_length(this)
    IN  [this |-> IF AboveEpsilon(length) THEN Vector3_divide(this, length)
                                          ELSE Vector3_zeroValues(this),
         ret |-> "this"]

Vector3_entries(this) ==
    <<this[1], this[2], this[3]>>

-----------------------------------------------------------------------------
(* Matrix4x4: the projections and the view matrix *)

\* left # right, bottom # top, near # far
Matrix4x4_orthographic(left, right, bottom, top, near, far) ==
    <<RDiv(R(2), RSub(right, left)), R(0), R(0), R(0),
      R(0), RDiv(R(2), RSub(top, bottom)), R(0), R(0),
      R(0), R(0), RDiv(R(2), RSub(near, far)), R(0),
      RDiv(RAdd(left, right), RSub(left, right)),
      RDiv(RAdd(bottom, top), RSub(bottom, top)),
      RDiv(RAdd(near, far), RSub(near, far)),
      R(1)>>

\* the fields of view drawn, each with Math.tan(Math.PI * 0.5 - 0.5 * fov):
\* the tangent is a rational at these angles
\* PI / 2, 2 * atan(2), 2 * atan(1 / 2)
Fovs ==
    << R(1), <<1, 2>>, R(2) >>

\* a slip of perspective: the range taken as far - near
Matrix4x4_perspective_farNear(f, aspect, near, far) ==
    LET rangeInv == RDiv(R(1), RSub(far, near))
    IN  <<RDiv(f, aspect), R(0), R(0), R(0),
          R(0), f, R(0), R(0),
          R(0), R(0), RMul(RAdd(near, far), rangeInv), R(-1),
          R(0), R(0), RMul(RMul(RMul(near, far), rangeInv), R(2)), R(0)>>

\* f is Math.tan(Math.PI * 0.5 - 0.5 * fieldOfViewInRadians); near # far
Matrix4x4_perspective(f, aspect, near, far) ==
    LET rangeInv == RDiv(R(1), RSub(near, far))
    IN  <<RDiv(f, aspect), R(0), R(0), R(0),
          R(0), f, R(0), R(0),
          R(0), R(0), RMul(RAdd(near, far), rangeInv), R(-1),
          R(0), R(0), RMul(RMul(RMul(near, far), rangeInv), R(2)), R(0)>>

\* whether the three lengths lookAt takes are rationals
Matrix4x4_lookAtExact(origin, target, up) ==
    LET d == Vector3_subtract(origin, target)
    IN  /\ HasRoot(Vector3_squares(d))
        /\ LET zAxis == Vector3_normalize(d).this
               c == Vector3_cross(up, zAxis)
           IN  /\ HasRoot(Vector3_squares(c))
               /\ LET xAxis == Vector3_normalize(c).this
                  IN  HasRoot(Vector3_squares(Vector3_cross(zAxis, xAxis)))

\* a slip of lookAt: origin.sub(target) and origin.normalize() in place of
\* Vector3.subtract(origin, target).normalize()
Matrix4x4_lookAt_inPlace(origin, target, up) ==
    LET zAxis == Vector3_normalize(Vector3_sub(origin, target)).this
        xAxis == Vector3_normalize(Vector3_cross(up, zAxis)).this
        yAxis == Vector3_normalize(Vector3_cross(zAxis, xAxis)).this
    IN  [ret |-> <<xAxis[1], xAxis[2], xAxis[3], R(0),
                   yAxis[1], yAxis[2], yAxis[3], R(0),
                   zAxis[1], zAxis[2], zAxis[3], R(0),
                   zAxis[1], zAxis[2], zAxis[3], R(1)>>,
         origin |-> zAxis, target |-> target, up |-> up]

\* the entries of the matrix lookAt returns, and the fields of its three
\* arguments when it returns: subtract and cross make new vectors, and
\* normalize is called on those
Matrix4x4_lookAt(origin, target, up) ==
    LET zAxis == Vector3_normalize(Vector3_subtract(origin, target)).this
        xAxis == Vector3_normalize(Vector3_cross(up, zAxis)).this
        yAxis == Vector3_normalize(Vector3_cross(zAxis, xAxis)).this
    IN  [ret |-> <<xAxis[1],  xAxis[2],  xAxis[3],  R(0),
                   yAxis[1],  yAxis[2],  yAxis[3],  R(0),
                   zAxis[1],  zAxis[2],  zAxis[3],  R(0),
                   origin[1], origin[2], origin[3], R(1)>>,
         origin |-> origin, target |-> target, up |-> up]

-----------------------------------------------------------------------------
(* The 2D transform demo (src/unnamed/part_000).  An angle is held in      *)
(* quarter turns, the unit of Cos and Sin: DEG2RAD is 1/90.                *)

\* the strings the sliders hand over, and the number each one spells
NumberOf ==
    [ s0 |-> R(0), s1 |-> R(1), s2 |-> R(2), sMinus1 |-> R(-1),
      sHalf |-> <<1, 2>>, s90 |-> R(90), s100 |-> R(100), s180 |-> R(180),
      s200 |-> R(200), s270 |-> R(270), s300 |-> R(300) ]

\* parseInt(value): the integer part of the number spelled
parseInt(value) ==
    LET x == NumberOf[value]
    IN  IF x[1] >= 0 THEN R(x[1] \div x[2]) ELSE R(-((-x[1]) \div x[2]))

\* parseFloat(value): the number spelled
parseFloat(value) ==
    NumberOf[value]

DEG2RAD ==
    <<1, 90>>

\* a slip of drawScene: matrix.rotate before matrix.scale
drawScene_rotateFirst(t, angle, sc, clientWidth, clientHeight) ==
    LET m0 == Matrix3x3_identity
        m1 == Matrix3x3_translate(m0, R(-50), R(-75))
        m2 == Matrix3x3_rotate(m1, angle[1])
        m3 == Matrix3x3_scale(m2, sc[1], sc[2])
        m4 == Matrix3x3_translate(m3, t[1], t[2])
    IN  Matrix3x3_mult(m4, Matrix3x3_projection(clientWidth, clientHeight))

\* the matrix drawScene hands to gl.uniformMatrix3fv
drawScene(t, angle, sc, clientWidth, clientHeight) ==
    LET m0 == Matrix3x3_identity
        m1 == Matrix3x3_translate(m0, R(-50), R(-75))
        m2 == Matrix3x3_scale(m1, sc[1], sc[2])
        m3 == Matrix3x3_rotate(m2, angle[1])
        m4 == Matrix3x3_translate(m3, t[1], t[2])
    IN  Matrix3x3_mult(m4, Matrix3x3_projection(clientWidth, clientHeight))

-----------------------------------------------------------------------------
(* The program under test: two matrix objects a and b of one class         *)
(* (Matrix2x2, Matrix3x3 or Matrix4x4), built by the constructor from an   *)
(* array of entries, and a sequence of calls of the library on them.       *)
(* A static builder, copy(), multiply() and inverse() return a new object, *)
(* which the program binds to b.  Beside them: three Vector3 objects and   *)
(* the calls made on them, and the state of the 2D transform demo.         *)

VARIABLES
    cls,    \* the order of the class of a and b: 2, 3 or 4
    heap,   \* the entries of the objects a and b
    same,   \* whether a.entries and b.entries are one array: the
            \* constructor keeps the array it is handed
    log     \* the calls made, oldest first: each with its name, receiver,
            \* argument, parameters, outcome, returned value, the heap
            \* before it (pre), whether a and b shared their array (shared),
            \* and the entries of the objects a and b after it (post)

VARIABLES
    vecs,   \* the fields of the Vector3 objects origin, target and up
    vlog    \* the calls made on them, oldest first: each with its name,
            \* receiver, argument, the vectors before and after it, the
            \* vector or the entries of the matrix returned, and the
            \* object returned: one of the three, or "new"

VARIABLES
    translation,      \* const translation = [200, 100]
    angleInRadians,   \* let angleInRadians = 0
    scale,            \* const scale = [1, 1]
    canvas,           \* gl.canvas.clientWidth, gl.canvas.clientHeight
    u_matrix,         \* the matrix of the last gl.uniformMatrix3fv
    frames            \* the number of calls of drawScene

mvars == <<cls, heap, same, log>>

vvars == <<vecs, vlog>>

dvars == <<translation, angleInRadians, scale, canvas, u_matrix, frames>>

vars == <<mvars, vvars, dvars>>

\* the demo once the script has run: drawScene() was called once
DemoStarts(size) ==
    /\ translation = <<R(200), R(100)>>
    /\ angleInRadians = R(0)
    /\ scale = <<R(1), R(1)>>
    /\ canvas = size
    /\ u_matrix = drawScene(<<R(200), R(100)>>, R(0), <<R(1), R(1)>>,
                            size[1], size[2])
    /\ frames = 1

\* new Vector3() three times: the default fields
VectorsStart ==
    /\ vecs = [origin |-> <<R(0), R(0), R(0)>>, target |-> <<R(0), R(0), R(0)>>,
               up |-> <<R(0), R(0), R(0)>>]
    /\ vlog = <<>>

\* the parts of the program a specification of the matrices leaves alone
Elsewhere ==
    /\ VectorsStart
    /\ DemoStarts(<<R(400), R(300)>>)

\* the number of calls of one run
MaxOps ==
    2

\* the range of the numbers: a call is made when the entries it leaves have
\* numerators and denominators of at most MaxNum in absolute value, and
\* determinant(), _adjointDeterminant() and inverse() are called on matrices
\* of integers of at most MaxInt in absolute value, and so are mult() and
\* premult() with the receiver's own array as argument
MaxNum ==
    2000

MaxInt ==
    50

Small(e) ==
    \A x \in 1..Len(e) : Abs(e[x][1]) <= MaxNum /\ e[x][2] <= MaxNum

Integral(e) ==
    \A x \in 1..Len(e) : Abs(e[x][1]) <= MaxInt /\ e[x][2] = 1

Slots == {"a", "b"}

\* arrays handed to the constructors
Pool2 ==
    { Arr(<<1, 0, 0, 1>>), Arr(<<1, 2, 3, 4>>), Arr(<<0, 1, 1, 1>>),
      Arr(<<1, 2, 1, 2>>), Arr(<<0, 0, 3, 4>>) }

Pool3 ==
    { Arr(<<1, 0, 0,  0, 1, 0,  0, 0, 1>>),
      Arr(<<1, 2, 0,  0, 1, 3,  4, 0, 1>>),
      Arr(<<1, 1, 0,  0, 1, 0,  2, 0, 1>>),
      Arr(<<1, 2, 3,  1, 2, 3,  0, 1, 4>>) }

Pool4 ==
    { Arr(<<1, 0, 0, 0,  0, 1, 0, 0,  0, 0, 1, 0,  0, 0, 0, 1>>),
      Arr(<<1, 2, 0, 0,  0, 1, 3, 0,  0, 0, 1, 1,  2, 0, 0, 1>>),
      Arr(<<1, 1, 0, 0,  0, 1, 0, 0,  0, 0, 1, 2,  3, 0, 0, 1>>),
      Arr(<<1, 2, 3, 4,  1, 2, 3, 4,  0, 1, 0, 2,  5, 0, 1, 0>>) }

Pool(n) ==
    IF n = 2 THEN Pool2 ELSE IF n = 3 THEN Pool3 ELSE Pool4

\* parameters of the builders and helpers
Pairs == { <<10, 0>>, <<2, 2>>, <<-1, 3>> }

Triples == { <<10, 0, -1>>, <<2, 2, 2>>, <<-1, 3, 0>> }

Turns == 0..3

\* new MatrixN(entries) for a and for b, of one of the classes
InitOf(classes) ==
    /\ cls \in classes
    /\ heap \in [a : Pool(cls), b : Pool(cls)]
    /\ same = FALSE
    /\ log = <<>>
    /\ Elsewhere

Init ==
    InitOf({2, 3, 4})

\* one call: its record, and the heap it leaves
\* post: the entries of the objects a and b when the call ends; h, s: the
\* heap and the sharing once the program has bound the returned object
Call(op, recv, arg, par, out, retN, retM, post, h, s) ==
    /\ Len(log) < MaxOps
    /\ cls' = cls
    /\ heap' = h
    /\ same' = s
    /\ log' = Append(log, [op |-> op, recv |-> recv, arg |-> arg, par |-> par,
                           out |-> out, retN |-> retN, retM |-> retM,
                           pre |-> heap, shared |-> same, post |-> post])
    /\ UNCHANGED <<vvars, dvars>>

\* a call that returns a new matrix m, bound to b; shares tells whether the
\* array of the new matrix is the array of a
Builds(op, recv, arg, par, m, shares) ==
    /\ Len(log) < MaxOps
    /\ Small(m)
    /\ Call(op, recv, arg, par, "matrix", R(0), m, heap,
            [heap EXCEPT !.b = m], shares)

\* a call that returns a new matrix m on an array of its own, bound to b
Returns(op, recv, arg, par, m) ==
    Builds(op, recv, arg, par, m, FALSE)

\* a call that returns a new matrix m of another class, bound to nothing
Hands(op, recv, par, m) ==
    Call(op, recv, "none", par, "matrix", R(0), m, heap, heap, same)

\* a slip of the writes of a mutating call: they land in the argument too
Written_everywhere(recv, m) ==
    [a |-> m, b |-> m]

\* the heap once the array of the object recv holds the entries m
Written(recv, m) ==
    IF same THEN [a |-> m, b |-> m] ELSE [heap EXCEPT ![recv] = m]

\* a call that leaves the receiver with entries m and returns nothing
Mutates(op, recv, arg, par, m) ==
    /\ Len(log) < MaxOps
    /\ Small(m)
    /\ Call(op, recv, arg, par, "void", R(0), <<>>,
            Written(recv, m), Written(recv, m), same)

\* a call that returns the number x
Yields(op, recv, par, x) ==
    Call(op, recv, "none", par, "number", x, <<>>, heap, heap, same)

\* a call that throws
Throws(op, recv, par) ==
    Call(op, recv, "none", par, "error", R(0), <<>>, heap, heap, same)

(* Matrix2x2 *)

Identity2 ==
    /\ cls = 2
    /\ Returns("identity", "none", "none", <<>>, Matrix2x2_identity)

Mult2 ==
    /\ cls = 2
    /\ \E r \in Slots, g \in Slots :
           IF r = g \/ same
           THEN /\ Integral(heap[r])
                /\ Mutates("mult", r, g, <<>>, Matrix2x2_multSelf(heap[r]))
           ELSE Mutates("mult", r, g, <<>>, Matrix2x2_mult(heap[r], heap[g]))

Premult2 ==
    /\ cls = 2
    /\ \E r \in Slots, g \in Slots :
           IF r = g \/ same
           THEN /\ Integral(heap[r])
                /\ Mutates("premult", r, g, <<>>, Matrix2x2_premultSelf(heap[r]))
           ELSE Mutates("premult", r, g, <<>>, Matrix2x2_premult(heap[r], heap[g]))

Copy2 ==
    /\ cls = 2
    /\ Builds("copy", "a", "none", <<>>, Matrix2x2_copy(heap.a),
              Matrix2x2_copyShares(heap.a))

Determinant2 ==
    /\ cls = 2
    /\ \E r \in Slots :
           /\ Integral(heap[r])
           /\ Yields("determinant", r, <<>>, Matrix2x2_determinant(heap[r]))

(* Matrix3x3 *)

Identity3 ==
    /\ cls = 3
    /\ Returns("identity", "none", "none", <<>>, Matrix3x3_identity)

Translation3 ==
    /\ cls = 3
    /\ \E p \in Pairs :
           Returns("translation", "none", "none", p,
                   Matrix3x3_translation(R(p[1]), R(p[2])))

Rotation3 ==
    /\ cls = 3
    /\ \E q \in Turns :
           Returns("rotation", "none", "none", <<q>>, Matrix3x3_rotation(q))

Scaling3 ==
    /\ cls = 3
    /\ \E p \in Pairs :
           Returns("scaling", "none", "none", p,
                   Matrix3x3_scaling(R(p[1]), R(p[2])))

Projection3 ==
    /\ cls = 3
    /\ \E p \in { <<2, 2>>, <<10, 4>> } :
           Returns("projection", "none", "none", p,
                   Matrix3x3_projection(R(p[1]), R(p[2])))

Multiply3 ==
    /\ cls = 3
    /\ \E x \in Slots, y \in Slots :
           Returns("multiply", x, y, <<>>, Matrix3x3_multiply(heap[x], heap[y]))

Mult3 ==
    /\ cls = 3
    /\ \E r \in Slots, g \in Slots :
           IF r = g \/ same
           THEN /\ Integral(heap[r])
                /\ Mutates("mult", r, g, <<>>, Matrix3x3_multSelf(heap[r]))
           ELSE Mutates("mult", r, g, <<>>, Matrix3x3_mult(heap[r], heap[g]))

Premult3 ==
    /\ cls = 3
    /\ \E r \in Slots, g \in Slots :
           IF r = g \/ same
           THEN /\ Integral(heap[r])
                /\ Mutates("premult", r, g, <<>>, Matrix3x3_premultSelf(heap[r]))
           ELSE Mutates("premult", r, g, <<>>, Matrix3x3_premult(heap[r], heap[g]))

Translate3 ==
    /\ cls = 3
    /\ \E p \in Pairs :
           Mutates("translate", "a", "none", p,
                   Matrix3x3_translate(heap.a, R(p[1]), R(p[2])))

Scale3 ==
    /\ cls = 3
    /\ \E p \in Pairs :
           Mutates("scale", "a", "none", p,
                   Matrix3x3_scale(heap.a, R(p[1]), R(p[2])))

Rotate3 ==
    /\ cls = 3
    /\ \E q \in Turns :
           Mutates("rotate", "a", "none", <<q>>, Matrix3x3_rotate(heap.a, q))

Copy3 ==
    /\ cls = 3
    /\ Builds("copy", "a", "none", <<>>, Matrix3x3_copy(heap.a),
              Matrix3x3_copyShares(heap.a))

Cofactor3 ==
    /\ cls = 3
    /\ \E i \in 0..2, j \in 0..2 :
           Hands("_cofactor", "a", <<i, j>>,
                Matrix3x3_cofactor(heap.a, i, j))

Determinant3 ==
    /\ cls = 3
    /\ \E r \in Slots :
           /\ Integral(heap[r])
           /\ Yields("determinant", r, <<>>, Matrix3x3_determinant(heap[r]))

AdjointDeterminant3 ==
    /\ cls = 3
    /\ Integral(heap.a)
    /\ \E i \in 0..2, j \in 0..2 :
           Yields("_adjointDeterminant", "a", <<i, j>>,
                  Matrix3x3_adjointDeterminant(heap.a, i, j))

Inverse3 ==
    /\ cls = 3
    /\ Len(log) < MaxOps
    /\ Integral(heap.a)
    /\ IF Matrix3x3_inverseThrows(heap.a)
       THEN Throws("inverse", "a", <<>>)
       ELSE Returns("inverse", "a", "none", <<>>, Matrix3x3_inverse(heap.a))

(* Matrix4x4 *)

Identity4 ==
    /\ cls = 4
    /\ Returns("identity", "none", "none", <<>>, Matrix4x4_identity)

FromTranslation4 ==
    /\ cls = 4
    /\ \E p \in Triples :
           Returns("fromTranslation", "none", "none", p,
                   Matrix4x4_fromTranslation(R(p[1]), R(p[2]), R(p[3])))

FromXRotation4 ==
    /\ cls = 4
    /\ \E q \in Turns :
           Returns("fromXRotation", "none", "none", <<q>>, Matrix4x4_fromXRotation(q))

FromYRotation4 ==
    /\ cls = 4
    /\ \E q \in Turns :
           Returns("fromYRotation", "none", "none", <<q>>, Matrix4x4_fromYRotation(q))

FromZRotation4 ==
    /\ cls = 4
    /\ \E q \in Turns :
           Returns("fromZRotation", "none", "none", <<q>>, Matrix4x4_fromZRotation(q))

FromScaling4 ==
    /\ cls = 4
    /\ \E p \in Triples :
           Returns("fromScaling", "none", "none", p,
                   Matrix4x4_fromScaling(R(p[1]), R(p[2]), R(p[3])))

Orthographic4 ==
    /\ cls = 4
    /\ \E p \in { <<0, 4, 2, 0, -1, 1>>, <<-1, 1, -1, 1, 1, 3>> } :
           Returns("orthographic", "none", "none", p,
                   Matrix4x4_orthographic(R(p[1]), R(p[2]), R(p[3]),
                                          R(p[4]), R(p[5]), R(p[6])))

\* fov: the index in Fovs of the field of view
Perspective4 ==
    /\ cls = 4
    /\ \E fov \in 1..Len(Fovs), aspect \in {1, 2},
          range \in { <<1, 2>>, <<1, 5>>, <<2, 4>> } :
           Returns("perspective", "none", "none",
                   <<fov, aspect, range[1], range[2]>>,
                   Matrix4x4_perspective(Fovs[fov], R(aspect),
                                         R(range[1]), R(range[2])))

Multiply4 ==
    /\ cls = 4
    /\ \E x \in Slots, y \in Slots :
           Returns("multiply", x, y, <<>>, Matrix4x4_multiply(heap[x], heap[y]))

Mult4 ==
    /\ cls = 4
    /\ \E r \in Slots, g \in Slots :
           IF r = g \/ same
           THEN /\ Integral(heap[r])
                /\ Mutates("mult", r, g, <<>>, Matrix4x4_multSelf(heap[r]))
           ELSE Mutates("mult", r, g, <<>>, Matrix4x4_mult(heap[r], heap[g]))

Premult4 ==
    /\ cls = 4
    /\ \E r \in Slots, g \in Slots :
           IF r = g \/ same
           THEN /\ Integral(heap[r])
                /\ Mutates("premult", r, g, <<>>, Matrix4x4_premultSelf(heap[r]))
           ELSE Mutates("premult", r, g, <<>>, Matrix4x4_premult(heap[r], heap[g]))

Translate4 ==
    /\ cls = 4
    /\ \E p \in Triples :
           Mutates("translate", "a", "none", p,
                   Matrix4x4_translate(heap.a, R(p[1]), R(p[2]), R(p[3])))

Scale4 ==
    /\ cls = 4
    /\ \E p \in Triples :
           Mutates("scale", "a", "none", p,
                   Matrix4x4_scale(heap.a, R(p[1]), R(p[2]), R(p[3])))

XRotate4 ==
    /\ cls = 4
    /\ \E q \in Turns :
           Mutates("xRotate", "a", "none", <<q>>, Matrix4x4_xRotate(heap.a, q))

YRotate4 ==
    /\ cls = 4
    /\ \E q \in Turns :
           Mutates("yRotate", "a", "none", <<q>>, Matrix4x4_yRotate(heap.a, q))

ZRotate4 ==
    /\ cls = 4
    /\ \E q \in Turns :
           Mutates("zRotate", "a", "none", <<q>>, Matrix4x4_zRotate(heap.a, q))

Copy4 ==
    /\ cls = 4
    /\ Builds("copy", "a", "none", <<>>, Matrix4x4_copy(heap.a),
              Matrix4x4_copyShares(heap.a))

Cofactor4 ==
    /\ cls = 4
    /\ \E i \in 0..3, j \in 0..3 :
           Hands("_cofactor", "a", <<i, j>>,
                Matrix4x4_cofactor(heap.a, i, j))

Determinant4 ==
    /\ cls = 4
    /\ \E r \in Slots :
           /\ Integral(heap[r])
           /\ Yields("determinant", r, <<>>, Matrix4x4_determinant(heap[r]))

AdjointDeterminant4 ==
    /\ cls = 4
    /\ Integral(heap.a)
    /\ \E i \in 0..3, j \in 0..3 :
           Yields("_adjointDeterminant", "a", <<i, j>>,
                  Matrix4x4_adjointDeterminant(heap.a, i, j))

Inverse4 ==
    /\ cls = 4
    /\ Len(log) < MaxOps
    /\ Integral(heap.a)
    /\ IF Matrix4x4_inverseThrows(heap.a)
       THEN Throws("inverse", "a", <<>>)
       ELSE Returns("inverse", "a", "none", <<>>, Matrix4x4_inverse(heap.a))

Next ==
    \/ Identity2 \/ Mult2 \/ Premult2 \/ Copy2 \/ Determinant2
    \/ Identity3 \/ Translation3 \/ Rotation3 \/ Scaling3 \/ Projection3
    \/ Multiply3 \/ Mult3 \/ Premult3 \/ Translate3 \/ Scale3 \/ Rotate3
    \/ Copy3 \/ Cofactor3 \/ Determinant3 \/ AdjointDeterminant3 \/ Inverse3
    \/ Identity4 \/ FromTranslation4 \/ FromXRotation4 \/ FromYRotation4
    \/ FromZRotation4 \/ FromScaling4 \/ Orthographic4 \/ Perspective4
    \/ Multiply4 \/ Mult4 \/ Premult4
    \/ Translate4 \/ Scale4 \/ XRotate4 \/ YRotate4 \/ ZRotate4
    \/ Copy4 \/ Cofactor4 \/ Determinant4 \/ AdjointDeterminant4 \/ Inverse4

Spec ==
    Init /\ [][Next]_vars

-----------------------------------------------------------------------------
(* Calls on the Vector3 objects *)

\* the number of calls on the vectors of one run
MaxVecOps ==
    2

VSlots == {"origin", "target", "up"}

\* the vectors handed to the constructor
VPool ==
    { Arr(<<0, 0, 0>>), Arr(<<0, 1, 0>>), Arr(<<0, 0, 5>>), Arr(<<3, 4, 0>>) }

InitVector ==
    /\ vecs \in [origin : VPool, target : VPool, up : VPool]
    /\ vlog = <<>>
    /\ cls = 4
    /\ heap = [a |-> Matrix4x4_identity, b |-> Matrix4x4_identity]
    /\ same = FALSE
    /\ log = <<>>
    /\ DemoStarts(<<R(400), R(300)>>)

\* one call: its record, and the vectors it leaves
VCall(op, recv, arg, retV, ret, retM, post) ==
    /\ Len(vlog) < MaxVecOps
    /\ vecs' = post
    /\ vlog' = Append(vlog, [op |-> op, recv |-> recv, arg |-> arg,
                             pre |-> vecs, post |-> post,
                             retV |-> retV, ret |-> ret, retM |-> retM])
    /\ UNCHANGED <<mvars, dvars>>

Subtract ==
    /\ Len(vlog) < MaxVecOps
    /\ \E g \in VSlots :
           VCall("subtract", "origin", g,
                 Vector3_subtract(vecs.origin, vecs[g]), "new", <<>>, vecs)

Sum ==
    /\ Len(vlog) < MaxVecOps
    /\ \E g \in VSlots :
           VCall("sum", "origin", g,
                 Vector3_sum(vecs.origin, vecs[g]), "new", <<>>, vecs)

Cross ==
    /\ Len(vlog) < MaxVecOps
    /\ \E r \in VSlots, g \in VSlots :
           VCall("cross", r, g, Vector3_cross(vecs[r], vecs[g]), "new", <<>>, vecs)

Sub ==
    /\ Len(vlog) < MaxVecOps
    /\ \E g \in VSlots :
           VCall("sub", "up", g, <<>>, "none", <<>>,
                 [vecs EXCEPT !.up = Vector3_sub(vecs.up, vecs[g])])

Add ==
    /\ Len(vlog) < MaxVecOps
    /\ \E g \in VSlots :
           VCall("add", "up", g, <<>>, "none", <<>>,
                 [vecs EXCEPT !.up = Vector3_add(vecs.up, vecs[g])])

\* called on the vectors whose length is a rational
Normalize ==
    /\ Len(vlog) < MaxVecOps
    /\ \E r \in VSlots :
           /\ HasRoot(Vector3_squares(vecs[r]))
           /\ LET n == Vector3_normalize(vecs[r])
                  post == [vecs EXCEPT ![r] = n.this]
              IN  VCall("normalize", r, "none", post[r],
                        IF n.ret = "this" THEN r ELSE "new", <<>>, post)

\* Matrix4x4.lookAt(origin, target, up), when its three lengths are rationals
LookAt ==
    /\ Matrix4x4_lookAtExact(vecs.origin, vecs.target, vecs.up)
    /\ LET l == Matrix4x4_lookAt(vecs.origin, vecs.target, vecs.up)
       IN  VCall("lookAt", "none", "none", <<>>, "new", l.ret,
                 [origin |-> l.origin, target |-> l.target, up |-> l.up])

NextVector ==
    \/ Subtract \/ Sum \/ Cross \/ Sub \/ Add \/ Normalize \/ LookAt

SpecVector ==
    InitVector /\ [][NextVector]_vars

-----------------------------------------------------------------------------
(* The 2D transform demo: the script has run, the sliders are moved *)

\* the number of frames of one run
MaxFrames ==
    5

\* the sizes of the canvas
Sizes ==
    { <<R(400), R(300)>>, <<R(200), R(100)>> }

InitDemo ==
    /\ \E size \in Sizes : DemoStarts(size)
    /\ VectorsStart
    /\ cls = 3
    /\ heap = [a |-> Matrix3x3_identity, b |-> Matrix3x3_identity]
    /\ same = FALSE
    /\ log = <<>>

\* translation[index] = parseInt(value)
updatePosition(value, index) ==
    [translation EXCEPT ![index + 1] = parseInt(value)]

\* the end of every slider callback: drawScene() with the values t, angle
\* and sc of the globals
Draws(t, angle, sc) ==
    /\ frames < MaxFrames
    /\ translation' = t
    /\ angleInRadians' = angle
    /\ scale' = sc
    /\ u_matrix' = drawScene(t, angle, sc, canvas[1], canvas[2])
    /\ frames' = frames + 1
    /\ UNCHANGED <<canvas, mvars, vvars>>

xInput ==
    /\ frames < MaxFrames
    /\ \E value \in {"s0", "s200", "s300"} :
           Draws(updatePosition(value, 0), angleInRadians, scale)

yInput ==
    /\ frames < MaxFrames
    /\ \E value \in {"s0", "s100", "s200"} :
           Draws(updatePosition(value, 1), angleInRadians, scale)

rotInput ==
    /\ frames < MaxFrames
    /\ \E value \in {"s0", "s90", "s180", "s270"} :
           Draws(translation, RMul(parseFloat(value), DEG2RAD), scale)

scaleXInput ==
    /\ frames < MaxFrames
    /\ \E value \in {"s1", "s2", "sMinus1", "sHalf"} :
           Draws(translation, angleInRadians,
                 [scale EXCEPT ![1] = parseFloat(value)])

scaleYInput ==
    /\ frames < MaxFrames
    /\ \E value \in {"s1", "s2", "sHalf"} :
           Draws(translation, angleInRadians,
                 [scale EXCEPT ![2] = parseFloat(value)])

NextDemo ==
    \/ xInput \/ yInput \/ rotInput \/ scaleXInput \/ scaleYInput

SpecDemo ==
    InitDemo /\ [][NextDemo]_vars

-----------------------------------------------------------------------------
(* Specifications of parts of the library, over richer inputs *)

\* the heap after call k
After(k) ==
    IF k = Len(log) THEN heap ELSE log[k + 1].pre

\* the n x n identity and the n x n product x * y, as mathematics has them
Id(n) ==
    [x \in 1..(n * n) |-> IF (x - 1) \div n = (x - 1) % n THEN R(1) ELSE R(0)]

RECURSIVE Dot(_, _, _, _, _, _)
Dot(n, x, y, i, j, k) ==
    IF k = 0 THEN R(0)
    ELSE RAdd(Dot(n, x, y, i, j, k - 1),
              RMul(x[i * n + (k - 1) + 1], y[(k - 1) * n + j + 1]))

Prod(n, x, y) ==
    [e \in 1..(n * n) |-> Dot(n, x, y, (e - 1) \div n, (e - 1) % n, n)]

\* the row vector v times the n x n matrix m
RowTimes(n, v, m) ==
    [j \in 1..n |-> Dot(n, v, m, 0, j - 1, n)]

\* the arrays of the products of two arrays of the pool
Products(n) ==
    { Prod(n, x, y) : x \in Pool(n), y \in Pool(n) }

\* inverse() and mult() on Matrix3x3 and Matrix4x4
InitInverse ==
    /\ cls \in {3, 4}
    /\ heap \in [a : Products(cls), b : Pool(cls)]
    /\ same = FALSE
    /\ log = <<>>
    /\ Elsewhere

NextInverse ==
    \/ Inverse3 \/ Mult3
    \/ Inverse4 \/ Mult4

SpecInverse ==
    InitInverse /\ [][NextInverse]_vars

\* the composition helpers, premult() of Matrix4x4 and rotation() of Matrix3x3
InitCompose ==
    InitOf({3, 4})

NextCompose ==
    \/ Rotation3 \/ Translate3 \/ Scale3 \/ Rotate3
    \/ Premult4 \/ Translate4 \/ Scale4 \/ XRotate4 \/ YRotate4 \/ ZRotate4

SpecCompose ==
    InitCompose /\ [][NextCompose]_vars

\* identity() and mult() of the three classes
NextMult ==
    \/ Identity2 \/ Mult2
    \/ Identity3 \/ Mult3
    \/ Identity4 \/ Mult4

SpecMult ==
    Init /\ [][NextMult]_vars

\* copy() and the mutating operations, on two objects that were built on
\* arrays of their own or on one array
InitAlias ==
    /\ cls \in {2, 3, 4}
    /\ heap \in [a : Pool(cls), b : Pool(cls)]
    /\ same \in IF heap.a = heap.b THEN BOOLEAN ELSE {FALSE}
    /\ log = <<>>
    /\ Elsewhere

NextAlias ==
    \/ Copy2 \/ Mult2 \/ Premult2
    \/ Copy3 \/ Mult3 \/ Premult3 \/ Translate3 \/ Scale3 \/ Rotate3
    \/ Copy4 \/ Mult4 \/ Premult4

SpecAlias ==
    InitAlias /\ [][NextAlias]_vars

\* the array of the argument b
FrameArg(n) ==
    IF n = 3 THEN Arr(<<1, 2, 0,  0, 1, 3,  4, 0, 1>>)
             ELSE Arr(<<1, 2, 0, 0,  0, 1, 3, 0,  0, 0, 1, 1,  2, 0, 0, 1>>)

\* the operations of Matrix3x3 and Matrix4x4 that read their operands, and
\* mult() and premult()
InitFrame ==
    /\ cls \in {3, 4}
    /\ heap \in [a : Pool(cls) \ { Id(cls), FrameArg(cls) }, b : { FrameArg(cls) }]
    /\ same = FALSE
    /\ log = <<>>
    /\ Elsewhere

NextFrame ==
    \/ Determinant3 \/ Cofactor3 \/ AdjointDeterminant3 \/ Inverse3
    \/ Multiply3 \/ Mult3 \/ Premult3
    \/ Determinant4 \/ Cofactor4 \/ AdjointDeterminant4 \/ Inverse4
    \/ Multiply4 \/ Mult4 \/ Premult4

SpecFrame ==
    InitFrame /\ [][NextFrame]_vars

\* the projections of Matrix4x4
InitProject ==
    InitOf({4})

NextProject ==
    \/ Orthographic4
    \/ Perspective4

SpecProject ==
    InitProject /\ [][NextProject]_vars

\* _cofactor() and _adjointDeterminant() of Matrix3x3 and Matrix4x4, on the
\* arrays of the pool and on their products
InitMinor ==
    /\ cls \in {3, 4}
    /\ heap \in [a : Products(cls), b : {Id(cls)}]
    /\ same = FALSE
    /\ log = <<>>
    /\ Elsewhere

NextMinor ==
    \/ Cofactor3 \/ AdjointDeterminant3
    \/ Cofactor4 \/ AdjointDeterminant4

SpecMinor ==
    InitMinor /\ [][NextMinor]_vars

\* the array e of an n x n matrix with row r, or column c, set to zeros
ZeroRow(n, e, r) ==
    [x \in 1..(n * n) |-> IF (x - 1) \div n = r THEN R(0) ELSE e[x]]

ZeroCol(n, e, c) ==
    [x \in 1..(n * n) |-> IF (x - 1) % n = c THEN R(0) ELSE e[x]]

\* determinant() of the three classes, on the arrays of the pool and on
\* those with one row or one column of zeros
InitDet ==
    /\ cls \in {2, 3, 4}
    /\ heap \in [a : Pool(cls)
                       \cup { ZeroRow(cls, e, r) : e \in Pool(cls), r \in 0..(cls - 1) }
                       \cup { ZeroCol(cls, e, c) : e \in Pool(cls), c \in 0..(cls - 1) },
                  b : Pool(cls)]
    /\ same = FALSE
    /\ log = <<>>
    /\ Elsewhere

NextDet ==
    \/ Determinant2
    \/ Determinant3
    \/ Determinant4

SpecDet ==
    InitDet /\ [][NextDet]_vars

-----------------------------------------------------------------------------
(* Claims *)

\* call k-1 is a successful x.inverse() and call k multiplies x and that
\* inverse, in either order
InverseThenMult(k) ==
    /\ log[k - 1].op = "inverse"
    /\ log[k - 1].out = "matrix"
    /\ log[k].op = "mult"
    /\ log[k].recv # log[k].arg

\* C1: for a non-singular Matrix4x4 M, M.mult(M.inverse()) and
\* M.inverse().mult(M) each leave the receiver equal to the 4x4 identity.
C1_InverseLaw4 ==
    \A k \in 2..Len(log) :
        (cls = 4 /\ InverseThenMult(k))
            => After(k)[log[k].recv] = Id(4)

\* M.mult(M.inverse()) was called on a Matrix4x4 M that is not the identity
\* and whose determinant is neither 1 nor -1
C1_Witness ==
    /\ cls = 4
    /\ Len(log) = 2
    /\ InverseThenMult(2)
    /\ log[2].recv = "a"
    /\ log[1].pre.a # Id(4)
    /\ Matrix4x4_determinant(log[1].pre.a) \notin {R(1), R(-1)}
    /\ heap.a = Id(4)

\* C2: for a non-singular Matrix3x3 M, M.mult(M.inverse()) and
\* M.inverse().mult(M) each leave the receiver's 3x3 entries equal to the
\* 3x3 identity.
C2_InverseLaw3 ==
    \A k \in 2..Len(log) :
        (cls = 3 /\ InverseThenMult(k))
            => SubSeq(After(k)[log[k].recv], 1, 9) = Id(3)

\* e is an array of exactly n*n numbers
IsMatrix(e, n) ==
    /\ Len(e) = n * n
    /\ \A x \in 1..Len(e) : e[x][2] # 0

\* the copies made by _adjointDeterminant during call k
AdjointCopies(k) ==
    LET c == log[k]
        m == c.pre[c.recv]
    IN  IF c.op = "_adjointDeterminant"
        THEN { IF cls = 3 THEN Matrix3x3_adjoint(m, c.par[1], c.par[2])
                          ELSE Matrix4x4_adjoint(m, c.par[1], c.par[2]) }
        ELSE IF c.op = "inverse" /\ c.out = "matrix"
        THEN IF cls = 3
             THEN { Matrix3x3_adjoint(m, i, j) :
                        i \in 0..(Matrix3x3_inverseBound - 1),
                        j \in 0..(Matrix3x3_inverseBound - 1) }
             ELSE { Matrix4x4_adjoint(m, i, j) :
                        i \in 0..(Matrix4x4_inverseBound - 1),
                        j \in 0..(Matrix4x4_inverseBound - 1) }
        ELSE {}

\* C3: every matrix has exactly N*N entries, all numbers, for the order N of
\* its class: the objects of the heap, the matrices returned by the builders,
\* copy(), multiply(), _cofactor() and inverse(), and the copies made inside
\* _adjointDeterminant.
C3_EntriesAlwaysNSquared ==
    /\ \A o \in Slots : IsMatrix(heap[o], cls)
    /\ \A k \in 1..Len(log) :
        /\ log[k].out = "matrix"
            => IsMatrix(log[k].retM,
                        IF log[k].op = "_cofactor" THEN cls - 1 ELSE cls)
        /\ \A t \in AdjointCopies(k) : IsMatrix(t, cls)

\* C4: inverse() on a Matrix3x3 or Matrix4x4 whose determinant() is 0 ends in
\* an error and returns no matrix, and leaves every object as it was.
C4_SingularInverseThrows ==
    \A k \in 1..Len(log) :
        LET c == log[k]
            det == IF cls = 3 THEN Matrix3x3_determinant(c.pre[c.recv])
                              ELSE Matrix4x4_determinant(c.pre[c.recv])
        IN  (cls \in {3, 4} /\ c.op = "inverse" /\ det = R(0))
                => /\ c.out = "error"
                   /\ c.retM = <<>>
                   /\ After(k) = c.pre

\* inverse() was called on a Matrix4x4 whose first two rows are identical
\* and that is not the zero matrix
C4_Witness ==
    /\ cls = 4
    /\ Len(log) >= 1
    /\ log[1].op = "inverse"
    /\ SubSeq(log[1].pre.a, 1, 4) = SubSeq(log[1].pre.a, 5, 8)
    /\ log[1].pre.a[1] # R(0)
    /\ log[1].out = "error"

\* C5: for Matrix2x2 and Matrix3x3, A.premult(B) with B another object leaves
\* A equal to the product B x A of the values before the call.
C5_PremultReverses ==
    \A k \in 1..Len(log) :
        (cls \in {2, 3} /\ log[k].op = "premult" /\ log[k].recv # log[k].arg)
            => After(k)[log[k].recv]
                   = Prod(cls, log[k].pre[log[k].arg], log[k].pre[log[k].recv])

\* the transform a helper builds from its parameters
Transform(n, op, par) ==
    IF n = 3
    THEN CASE op = "translate" -> Matrix3x3_translation(R(par[1]), R(par[2]))
           [] op = "scale" -> Matrix3x3_scaling(R(par[1]), R(par[2]))
           [] op = "rotate" -> Matrix3x3_rotation(par[1])
    ELSE CASE op = "translate" ->
                  Matrix4x4_fromTranslation(R(par[1]), R(par[2]), R(par[3]))
           [] op = "scale" -> Matrix4x4_fromScaling(R(par[1]), R(par[2]), R(par[3]))
           [] op = "xRotate" -> Matrix4x4_fromXRotation(par[1])
           [] op = "yRotate" -> Matrix4x4_fromYRotation(par[1])
           [] op = "zRotate" -> Matrix4x4_fromZRotation(par[1])

Helpers3 == {"translate", "scale", "rotate"}

Helpers4 == {"translate", "scale", "xRotate", "yRotate", "zRotate"}

\* C6: each helper of Matrix4x4 leaves M = Transform x M_old, premult(B) of
\* Matrix4x4 leaves the receiver = B x receiver_old, and each helper of
\* Matrix3x3 leaves M = M_old x Transform.
C6_Helpers4Premultiply ==
    \A k \in 1..Len(log) :
        LET c == log[k]
        IN  /\ (cls = 4 /\ c.op \in Helpers4)
                => After(k).a = Prod(4, Transform(4, c.op, c.par), c.pre.a)
            /\ (cls = 4 /\ c.op = "premult")
                => After(k)[c.recv] = Prod(4, c.pre[c.arg], c.pre[c.recv])
            /\ (cls = 3 /\ c.op \in Helpers3)
                => After(k).a = Prod(3, c.pre.a, Transform(3, c.op, c.par))

\* translate() was called on a Matrix4x4 that does not commute with the
\* translation
C6_Witness ==
    /\ cls = 4
    /\ Len(log) >= 1
    /\ log[1].op = "translate"
    /\ Prod(4, Transform(4, "translate", log[1].par), log[1].pre.a)
           # Prod(4, log[1].pre.a, Transform(4, "translate", log[1].par))
    /\ After(1).a = Prod(4, Transform(4, "translate", log[1].par), log[1].pre.a)

\* call k-1 is translate(10, 0) on the identity and call k is scale(2, 2)
TranslateThenScale(k) ==
    /\ cls = 3
    /\ log[k - 1].op = "translate"
    /\ log[k - 1].par = <<10, 0>>
    /\ log[k - 1].pre.a = Id(3)
    /\ log[k].op = "scale"
    /\ log[k].par = <<2, 2>>

\* C7: identity().translate(10,0).scale(2,2) takes the row vector (1,0,1) to
\* the vector translated and then scaled, (22,0,1); each helper of Matrix3x3
\* leaves this = this_old x Transform.
C7_TranslateThenScale3 ==
    /\ \A k \in 2..Len(log) :
        TranslateThenScale(k)
            => /\ RowTimes(3, Arr(<<1, 0, 1>>), After(k).a) = Arr(<<22, 0, 1>>)
               /\ RowTimes(3, Arr(<<1, 0, 1>>), After(k).a)
                    = RowTimes(3, RowTimes(3, Arr(<<1, 0, 1>>),
                                           Matrix3x3_translation(R(10), R(0))),
                               Matrix3x3_scaling(R(2), R(2)))
    /\ \A k \in 1..Len(log) :
        (cls = 3 /\ log[k].op \in Helpers3)
            => After(k).a = Prod(3, log[k].pre.a, Transform(3, log[k].op, log[k].par))

C7_Witness ==
    /\ Len(log) = 2
    /\ TranslateThenScale(2)
    /\ RowTimes(3, Arr(<<1, 0, 1>>), heap.a) = Arr(<<22, 0, 1>>)

\* identity() of the class of order n
IdentityOf(n) ==
    IF n = 2 THEN Matrix2x2_identity
    ELSE IF n = 3 THEN Matrix3x3_identity ELSE Matrix4x4_identity

\* C8: for the three classes, M.mult(identity()) leaves M's entries unchanged,
\* and identity().mult(M) leaves the receiver with M's entries and M unchanged.
C8_IdentityLaw ==
    \A k \in 1..Len(log) :
        LET c == log[k]
        IN  c.op = "mult"
                => /\ c.pre[c.arg] = IdentityOf(cls)
                        => After(k)[c.recv] = c.pre[c.recv]
                   /\ (c.pre[c.recv] = IdentityOf(cls) /\ c.recv # c.arg)
                        => /\ After(k)[c.recv] = c.pre[c.arg]
                           /\ After(k)[c.arg] = c.pre[c.arg]

\* b = identity() was followed by a.mult(b) on a Matrix4x4 a that is not the
\* identity
C8_Witness ==
    /\ cls = 4
    /\ Len(log) = 2
    /\ log[1].op = "identity"
    /\ log[2].op = "mult"
    /\ log[2].recv = "a"
    /\ log[2].arg = "b"
    /\ log[2].pre.a # Id(4)
    /\ heap.a = log[2].pre.a

HasZeroRow(n, e) ==
    \E r \in 0..(n - 1) : \A c \in 0..(n - 1) : e[r * n + c + 1] = R(0)

HasZeroCol(n, e) ==
    \E c \in 0..(n - 1) : \A r \in 0..(n - 1) : e[r * n + c + 1] = R(0)

\* C9: determinant() of the identity is 1, and determinant() of a matrix with
\* a row of zeros or a column of zeros is 0, for the three classes.
C9_DeterminantSpecialCases ==
    \A k \in 1..Len(log) :
        LET c == log[k]
            m == c.pre[c.recv]
        IN  c.op = "determinant"
                => /\ m = Id(cls) => c.retN = R(1)
                   /\ (HasZeroRow(cls, m) \/ HasZeroCol(cls, m)) => c.retN = R(0)

\* determinant() was called on a Matrix4x4 whose column 2 is zero and that
\* has no row of zeros
C9_Witness ==
    /\ cls = 4
    /\ Len(log) >= 1
    /\ log[1].op = "determinant"
    /\ LET m == log[1].pre[log[1].recv]
       IN  /\ \A r \in 0..3 : m[r * 4 + 2 + 1] = R(0)
           /\ ~HasZeroRow(4, m)
           /\ m[1] # R(0)
    /\ log[1].retN = R(0)

\* C10 as stated: rotation(PI/2) takes the row vector (1,0,1) to (0,1,1).
C10_QuarterTurnAsStated ==
    \A k \in 1..Len(log) :
        (cls = 3 /\ log[k].op = "rotation" /\ log[k].par = <<1>>)
            => RowTimes(3, Arr(<<1, 0, 1>>), log[k].retM) = Arr(<<0, 1, 1>>)

\* C10, amended: rotation(PI/2) takes the row vector (1,0,1) to (0,-1,1).
C10_QuarterTurn ==
    \A k \in 1..Len(log) :
        (cls = 3 /\ log[k].op = "rotation" /\ log[k].par = <<1>>)
            => RowTimes(3, Arr(<<1, 0, 1>>), log[k].retM) = Arr(<<0, -1, 1>>)

C10_Witness ==
    /\ cls = 3
    /\ Len(log) >= 1
    /\ log[1].op = "rotation"
    /\ log[1].par = <<1>>
    /\ RowTimes(3, Arr(<<1, 0, 1>>), heap.b) = Arr(<<0, -1, 1>>)


\* the calls k and l are cross(a, b) and cross(b, a) of the same two vectors
CrossBothWays(k, l) ==
    /\ vlog[k].op = "cross"
    /\ vlog[l].op = "cross"
    /\ vlog[k].pre[vlog[k].recv] = vlog[l].pre[vlog[l].arg]
    /\ vlog[k].pre[vlog[k].arg] = vlog[l].pre[vlog[l].recv]

\* C11: cross(a, b) is (a.y*b.z - a.z*b.y, a.z*b.x - a.x*b.z,
\* a.x*b.y - a.y*b.x), and every component of cross(a, b) is the negation of
\* the same component of cross(b, a).
C11_CrossAntiCommutative ==
    \A k \in 1..Len(vlog) :
        vlog[k].op = "cross"
            => /\ LET a == vlog[k].pre[vlog[k].recv]
                      b == vlog[k].pre[vlog[k].arg]
                  IN  vlog[k].retV =
                          <<RSub(RMul(a[2], b[3]), RMul(a[3], b[2])),
                            RSub(RMul(a[3], b[1]), RMul(a[1], b[3])),
                            RSub(RMul(a[1], b[2]), RMul(a[2], b[1]))>>
               /\ \A l \in 1..Len(vlog) :
                      CrossBothWays(k, l)
                          => \A i \in 1..3 : vlog[k].retV[i] = RNeg(vlog[l].retV[i])

\* cross(a, b) and then cross(b, a) were called on two vectors that are not
\* parallel, and the product has a component that is not zero on the y axis
C11_Witness ==
    /\ Len(vlog) = 2
    /\ CrossBothWays(1, 2)
    /\ vlog[1].recv # vlog[1].arg
    /\ vlog[1].retV[2] # R(0)
    /\ vlog[2].retV[2] = RNeg(vlog[1].retV[2])


Deleted(n, m, i, j, r, c) ==
    m[(IF r < i THEN r ELSE r + 1) * n + (IF c < j THEN c ELSE c + 1) + 1]

\* C13: M._cofactor(i, j) has (N-1) * (N-1) entries, those of M with row i
\* and column j deleted, in M's row and column order, for Matrix4x4 and
\* Matrix3x3; _cofactor(0, 0) of the 4x4 identity is the 3x3 identity.
C13_CofactorDeletes ==
    \A k \in 1..Len(log) :
        LET call == log[k]
            m == call.pre[call.recv]
            i == call.par[1]
            j == call.par[2]
        IN  call.op = "_cofactor"
                => /\ call.out = "matrix"
                   /\ Len(call.retM) = (cls - 1) * (cls - 1)
                   /\ \A r \in 0..(cls - 2), c \in 0..(cls - 2) :
                          call.retM[r * (cls - 1) + c + 1] = Deleted(cls, m, i, j, r, c)
                   /\ (cls = 4 /\ m = Id(4) /\ i = 0 /\ j = 0) => call.retM = Id(3)

\* _cofactor(1, 2) was called on a Matrix4x4 that is not symmetric and
\* returned 9 entries, and _cofactor(0, 0) was called on it too
C13_Witness ==
    /\ cls = 4
    /\ Len(log) = 2
    /\ log[1].op = "_cofactor"
    /\ log[1].par = <<1, 2>>
    /\ log[1].pre.a = Arr(<<1, 2, 0, 0,  0, 1, 3, 0,  0, 0, 1, 1,  2, 0, 0, 1>>)
    /\ log[1].retM = Arr(<<1, 2, 0,  0, 0, 1,  2, 0, 1>>)
    /\ log[2].op = "_cofactor"
    /\ log[2].par = <<0, 0>>


\* C14: perspective(PI/2, 1, 1, 2) returns a matrix with -3 at flat index
\* 10, -4 at flat index 14, -1 at flat index 11 and 0 at flat index 15; for
\* every near and far drawn, index 10 holds (near+far)/(near-far) and index
\* 14 holds 2*near*far/(near-far).
C14_PerspectiveEntries ==
    \A k \in 1..Len(log) :
        LET call == log[k]
            near == R(call.par[3])
            far == R(call.par[4])
        IN  call.op = "perspective"
                => /\ Len(call.retM) = 16
                   /\ call.retM[10 + 1] = RDiv(RAdd(near, far), RSub(near, far))
                   /\ call.retM[14 + 1] =
                          RDiv(RMul(R(2), RMul(near, far)), RSub(near, far))
                   /\ call.retM[11 + 1] = R(-1)
                   /\ call.retM[15 + 1] = R(0)
                   /\ call.par = <<1, 1, 1, 2>>
                          => /\ call.retM[10 + 1] = R(-3)
                             /\ call.retM[14 + 1] = R(-4)

\* perspective(PI/2, 1, 1, 2) was called and returned the matrix
\* [1,0,0,0, 0,1,0,0, 0,0,-3,-1, 0,0,-4,0]
C14_Witness ==
    /\ Len(log) >= 1
    /\ log[1].op = "perspective"
    /\ log[1].par = <<1, 1, 1, 2>>
    /\ log[1].retM = Arr(<<1, 0, 0, 0,  0, 1, 0, 0,  0, 0, -3, -1,  0, 0, -4, 0>>)
    /\ heap.b = log[Len(log)].retM


\* the object that is not r
Other(r) ==
    IF r = "a" THEN "b" ELSE "a"

\* C15: M.copy() returns a matrix with M's entries, and no mutating
\* operation called afterwards on the copy changes M's entries, nor one
\* called on M the copy's, for N in {2, 3, 4}.
C15_CopyIndependent ==
    \A k \in 1..Len(log) :
        log[k].op = "copy"
            => /\ log[k].out = "matrix"
               /\ log[k].retM = log[k].pre[log[k].recv]
               /\ log[k].post = log[k].pre
               /\ \A l \in (k + 1)..Len(log) :
                      log[l].out = "void"
                          => log[l].post[Other(log[l].recv)]
                                 = log[l].pre[Other(log[l].recv)]

\* a and b were built on one array; b was then bound to a.copy(), and
\* b.mult(a) changed the entries of b and left those of a
C15_Witness ==
    /\ Len(log) = 2
    /\ log[1].op = "copy"
    /\ log[1].shared
    /\ log[2].op = "mult"
    /\ log[2].recv = "b"
    /\ log[2].arg = "a"
    /\ heap.b # log[2].pre.b
    /\ heap.a = log[1].pre.a


\* C16: after A.mult(B) every entry (i, j) of A is the sum over k of
\* A_old[i][k] * B_old[k][j], also when B is the instance A, for N in
\* {2, 3, 4}.
C16_MultReadsOldState ==
    \A k \in 1..Len(log) :
        log[k].op = "mult"
            => SubSeq(log[k].post[log[k].recv], 1, cls * cls)
                   = Prod(cls, log[k].pre[log[k].recv], log[k].pre[log[k].arg])


\* (-1)^(i+j) * M._cofactor(j, i).determinant(), M of order n
SignedMinor(n, m, i, j) ==
    RMul(PowMinusOne(i + j),
         IF n = 4 THEN Matrix3x3_determinant(Matrix4x4_cofactor(m, j, i))
                  ELSE Matrix2x2_determinant(Matrix3x3_cofactor(m, j, i)))

\* C17: M._adjointDeterminant(i, j) equals the signed minor
\* (-1)^(i+j) * M._cofactor(j, i).determinant(), for every Matrix4x4 and
\* i, j in 0..3 and every Matrix3x3 and i, j in 0..2.
C17_AdjointIsSignedMinor ==
    \A k \in 1..Len(log) :
        log[k].op = "_adjointDeterminant"
            => /\ log[k].out = "number"
               /\ log[k].retN = SignedMinor(cls, log[k].pre[log[k].recv],
                                            log[k].par[1], log[k].par[2])

\* _adjointDeterminant(1, 2) of a Matrix4x4 that is not symmetric returned a
\* number that is not 0 and is not the signed minor of the transposed place
C17_Witness ==
    /\ cls = 4
    /\ Len(log) >= 1
    /\ log[1].op = "_adjointDeterminant"
    /\ log[1].par = <<1, 2>>
    /\ log[1].retN # R(0)
    /\ log[1].retN # SignedMinor(4, log[1].pre.a, 2, 1)


\* the vectors of mathematics: difference, cross product, dot product
Minus(v, w) ==
    <<RSub(v[1], w[1]), RSub(v[2], w[2]), RSub(v[3], w[3])>>

Times(v, w) ==
    <<RSub(RMul(v[2], w[3]), RMul(v[3], w[2])),
      RSub(RMul(v[3], w[1]), RMul(v[1], w[3])),
      RSub(RMul(v[1], w[2]), RMul(v[2], w[1]))>>

Inner(v, w) ==
    RAdd(RAdd(RMul(v[1], w[1]), RMul(v[2], w[2])), RMul(v[3], w[3]))

Zero3 ==
    <<R(0), R(0), R(0)>>

\* w is v normalized: zero when v is zero, and otherwise the vector of
\* length 1 in the direction of v
UnitOf(v, w) ==
    IF v = Zero3 THEN w = Zero3
    ELSE /\ Inner(w, w) = R(1)
         /\ Times(v, w) = Zero3
         /\ Inner(v, w)[1] > 0

\* row r (0..3) of the 4x4 matrix m, without its last entry
Row3(m, r) ==
    <<m[r * 4 + 1], m[r * 4 + 2], m[r * 4 + 3]>>

ChainNow ==
    Prod(3, Prod(3, Prod(3, Prod(3, Matrix3x3_translation(R(-50), R(-75)),
                                    Matrix3x3_scaling(scale[1], scale[2])),
                            Matrix3x3_rotation(angleInRadians[1])),
                    Matrix3x3_translation(translation[1], translation[2])),
            Matrix3x3_projection(canvas[1], canvas[2]))

\* C20: in the demo every slider event is followed by a drawScene, and the
\* matrix of the most recent drawScene is always translation(-50,-75) x
\* scaling(scale) x rotation(angle) x translation(translation) x
\* projection(width, height) of the current values, whatever the events
\* before and their order.
C20_FrameFromCurrentValues ==
    /\ [](u_matrix = ChainNow)
    /\ [][frames' = frames + 1]_vars

\* the rotation slider, the two scale sliders and the x slider were moved:
\* the angle is a quarter turn, the scale is not uniform, and the matrix
\* uploaded is the chain of these values
C20_Witness ==
    /\ frames = MaxFrames
    /\ angleInRadians = R(1)
    /\ scale = <<R(2), <<1, 2>>>>
    /\ translation = <<R(300), R(100)>>
    /\ u_matrix = ChainNow
    /\ u_matrix # drawScene(<<R(200), R(100)>>, R(0), <<R(1), R(1)>>,
                            canvas[1], canvas[2])

=============================================================================
